---- MODULE Spec2Model ----
(***************************************************************************)
(* Story-Priority-App: the priority assessment page of priority.py and     *)
(* priority_2.py (the two files differ only in help texts).                *)
(*                                                                         *)
(* A text is a sequence of one-character strings.  One step of the model   *)
(* is one run of the Streamlit script, triggered by one user interaction.  *)
(***************************************************************************)
EXTENDS Integers, Sequences, FiniteSets, TLC

VARIABLES
    session_state,    \* st.session_state: a function from the keys present to their values
    selected_issue,   \* key of the issue chosen in the selectbox, NoIssue when none is shown
    priority_output,  \* the text the model call of the latest assessment returned
    run,              \* the handler that ran in the latest script run
    raised,           \* the call that raised in the latest script run, "none" when none did
    uncaught,         \* TRUE when that exception left the script run uncaught
    st_messages,      \* st.error / st.warning / st.success shown by the latest handler
    jira_calls,       \* mutating calls the latest script run sent to the tracker
    all_prios,        \* the catalog jira.priorities() returned to the latest update handler
    priority_name,    \* the name the latest update handler resolved
    assessed_issue    \* history: the issue that was selected when the stored
                      \* recommendation was computed, NoIssue when none is stored

vars == <<session_state, selected_issue, priority_output, run, raised, uncaught,
          st_messages, jira_calls, all_prios, priority_name, assessed_issue>>

----------------------------------------------------------------------------
(* Bounds *)

MaxLines == 3
MaxCatalog == 2
NumIssues == 2

----------------------------------------------------------------------------
(* Texts *)

PRIORITY_MARKER ==
    <<"*","*","P","r","i","o","r","i","t","y"," ",
      "R","e","c","o","m","m","e","n","d","a","t","i","o","n",":","*","*">>

RATIONALE_MARKER == <<"*","*","R","a","t","i","o","n","a","l","e",":","*","*">>

High == <<"H","i","g","h">>
Medium == <<"M","e","d","i","u","m">>
Low == <<"L","o","w">>

\* str.strip() with no argument removes these from both ends
WhiteSpace == {" ", "\t", "\n", "\r", "\f"}

\* str.splitlines() ends a line at each of these; "\r\n" counts as one
LineBoundaries == {"\n", "\r", "\f"}

UpperCase == <<"A","B","C","D","E","F","G","H","I","J","K","L","M",
               "N","O","P","Q","R","S","T","U","V","W","X","Y","Z">>
LowerCase == <<"a","b","c","d","e","f","g","h","i","j","k","l","m",
               "n","o","p","q","r","s","t","u","v","w","x","y","z">>

LowerChar(c) ==
    IF \E i \in 1..Len(UpperCase) : UpperCase[i] = c
    THEN LowerCase[CHOOSE i \in 1..Len(UpperCase) : UpperCase[i] = c]
    ELSE c

UpperChar(c) ==
    IF \E i \in 1..Len(LowerCase) : LowerCase[i] = c
    THEN UpperCase[CHOOSE i \in 1..Len(LowerCase) : LowerCase[i] = c]
    ELSE c

\* str.lower()
Lower(s) == [i \in 1..Len(s) |-> LowerChar(s[i])]

\* str.capitalize(): first character upper case, the rest lower case
Capitalize(s) == [i \in 1..Len(s) |-> IF i = 1 THEN UpperChar(s[i]) ELSE LowerChar(s[i])]

\* m occurs in s starting at position i
OccursAt(s, m, i) ==
    /\ i + Len(m) - 1 <= Len(s)
    /\ \A k \in 1..Len(m) : s[i + k - 1] = m[k]

\* position of the first occurrence of m in s, 0 when there is none
Find(s, m) ==
    IF \E i \in 1..Len(s) : OccursAt(s, m, i)
    THEN CHOOSE i \in 1..Len(s) :
            OccursAt(s, m, i) /\ \A j \in 1..(i - 1) : ~OccursAt(s, m, j)
    ELSE 0

\* m in s
Contains(s, m) == Find(s, m) # 0

\* s.split(m, 1)[-1]: what follows the first occurrence of m, all of s when there is none
SplitLast(s, m) ==
    IF Contains(s, m) THEN SubSeq(s, Find(s, m) + Len(m), Len(s)) ELSE s

\* str.strip()
Strip(s) ==
    LET keep == {i \in 1..Len(s) : s[i] \notin WhiteSpace}
    IN  IF keep = {} THEN <<>>
        ELSE SubSeq(s, CHOOSE i \in keep : \A j \in keep : i <= j,
                       CHOOSE i \in keep : \A j \in keep : j <= i)

\* s[i] ends a line; the "\n" of a "\r\n" pair ends the line its "\r" began to end
EndsLine(s, i) == s[i] \in LineBoundaries /\ ~(s[i] = "\r" /\ i < Len(s) /\ s[i + 1] = "\n")

\* s[i] belongs to a line, not to a line boundary
InLine(s, i) == s[i] \notin LineBoundaries

\* positions at which a line of s starts: the first one, and the one after each
\* boundary unless the text ends there
LineStarts(s) ==
    {i \in 1..Len(s) : i = 1 \/ EndsLine(s, i - 1)}

\* the line of s that starts at position p: up to the next boundary
LineAt(s, p) ==
    LET stops == {i \in p..Len(s) : ~InLine(s, i)}
        stop == IF stops = {} THEN Len(s) + 1
                ELSE CHOOSE i \in stops : \A j \in stops : i <= j
    IN  SubSeq(s, p, stop - 1)

\* str.splitlines()
Splitlines(s) ==
    LET starts == LineStarts(s)
        nth(k) == CHOOSE p \in starts : Cardinality({q \in starts : q < p}) = k - 1
    IN  [k \in 1..Cardinality(starts) |-> LineAt(s, nth(k))]

RECURSIVE Join(_, _)
\* sep.join(parts)
Join(parts, sep) ==
    IF parts = <<>> THEN <<>>
    ELSE IF Len(parts) = 1 THEN parts[1]
    ELSE parts[1] \o sep \o Join(Tail(parts), sep)

----------------------------------------------------------------------------
(* Parsing the model output *)

\* LoopBody with the second test written as elif
LoopBodyElif(lines, idx, acc) ==
    LET line == lines[idx]
    IN  IF Contains(line, PRIORITY_MARKER)
        THEN [priority |-> Strip(SplitLast(line, PRIORITY_MARKER)),
              rationale |-> acc.rationale]
        ELSE IF Contains(line, RATIONALE_MARKER)
        THEN [priority |-> acc.priority,
              rationale |-> Strip(Join(SubSeq(lines, idx + 1, Len(lines)), <<"\n">>))]
        ELSE acc

\* one iteration of the parse loop on lines[idx], from the values acc holds
LoopBody(lines, idx, acc) ==
    LET line == lines[idx]
        p == IF Contains(line, PRIORITY_MARKER)
             THEN Strip(SplitLast(line, PRIORITY_MARKER))
             ELSE acc.priority
        r == IF Contains(line, RATIONALE_MARKER)
             THEN Strip(Join(SubSeq(lines, idx + 1, Len(lines)), <<"\n">>))
             ELSE acc.rationale
    IN  [priority |-> p, rationale |-> r]

RECURSIVE ParseLoop(_, _, _)
\* for idx, line in enumerate(lines): ...
ParseLoop(lines, idx, acc) ==
    IF idx > Len(lines) THEN acc
    ELSE ParseLoop(lines, idx + 1, LoopBody(lines, idx, acc))

\* Parse with the priority initialised to the default name instead of ""
ParseDefaultMedium(out) ==
    ParseLoop(Splitlines(out), 1, [priority |-> Medium, rationale |-> <<>>])

\* lines 142-149: split, initialise both fields to "", loop
Parse(out) == ParseLoop(Splitlines(out), 1, [priority |-> <<>>, rationale |-> <<>>])

----------------------------------------------------------------------------
(* The session and the tracker *)

Issues == 1..NumIssues      \* keys of the issues the search returns, in order
NoIssue == 0                \* no selectbox is shown

Has(k) == k \in DOMAIN session_state

\* st.session_state[k] = v
Put(ss, k, v) == [x \in DOMAIN ss \cup {k} |-> IF x = k THEN v ELSE ss[x]]

\* del st.session_state[k] for each k of ks that is present
Del(ss, ks) == [x \in DOMAIN ss \ ks |-> ss[x]]

\* st.session_state.get("connected", False)
Connected == Has("connected") /\ session_state["connected"]

\* the keys clear_connection_state deletes (the credentials are not modelled)
ClearedKeys == {"connected", "last_priority_recommendation",
                "last_priority_rationale", "last_selected_issue_key"}

\* ButtonsOffered without the comparison of the stored key
ButtonsOfferedNoKey ==
    /\ Connected
    /\ selected_issue # NoIssue
    /\ Has("last_priority_recommendation")
    /\ session_state["last_priority_recommendation"] # <<>>

\* ButtonsOffered testing that a label is stored instead of that it is non-empty
ButtonsOfferedAnyLabel ==
    /\ Connected
    /\ selected_issue # NoIssue
    /\ Has("last_priority_recommendation")
    /\ Has("last_selected_issue_key")
    /\ session_state["last_selected_issue_key"] = selected_issue

\* the condition under which both buttons are rendered
ButtonsOffered ==
    /\ Connected
    /\ selected_issue # NoIssue
    /\ Has("last_priority_recommendation")
    /\ session_state["last_priority_recommendation"] # <<>>
    /\ Has("last_selected_issue_key")
    /\ session_state["last_selected_issue_key"] = selected_issue

\* what a script run that reaches no tracker mutation and no update handler leaves
NoUpdateLocals == all_prios' = <<>> /\ priority_name' = <<>>

Quiet == raised' = "none" /\ uncaught' = FALSE /\ st_messages' = <<>> /\ jira_calls' = <<>>

----------------------------------------------------------------------------
(* Inputs *)

Urgent == <<"u","r","g","e","n","t","!","!","!">>
Ok == <<"o","k">>

\* labels a model reply may carry
Labels ==
    { High,
      <<"h","I","G","H">>,
      <<"l","o","w">>,
      <<"M","E","D","I","U","M">>,
      Urgent,
      High \o <<" ">> \o <<"p","r","i","o","r","i","t","y">>,
      <<"*","*">> \o High \o <<"*","*">>,
      <<>> }

\* a reply in the format the prompt asks for
Reply(label, text) ==
    PRIORITY_MARKER \o <<" ">> \o label \o <<"\n","\n">>
        \o RATIONALE_MARKER \o <<" "," ","\n">> \o text

\* replies chain.run may return in a session
ModelOutputs ==
    { Reply(l, Ok) : l \in Labels }
        \cup { Reply(High, <<>>),                       \* no rationale text
               RATIONALE_MARKER \o <<"\n">> \o Ok,      \* no priority marker
               PRIORITY_MARKER \o <<" ">> \o Low,       \* no rationale marker
               Ok,                                      \* no marker at all
               <<>> }

\* names the tracker's priorities may carry
CatalogNames ==
    { High,
      <<"M","E","D","I","U","M">>,
      <<"m","e","d","i","u","m">>,
      <<"L","o","w","e","s","t">> }

\* catalogs jira.priorities() may return: entries with distinct ids
Catalogs ==
    UNION { { [i \in 1..n |-> [id |-> i, name |-> f[i]]] : f \in [1..n -> CatalogNames] }
            : n \in 0..MaxCatalog }

----------------------------------------------------------------------------
(* Handlers *)

\* Store keeping the label already stored when the new one is empty
StoreKeepsLabel(ss, parsed, key) ==
    Put(Put(Put(ss, "last_priority_recommendation",
                IF parsed.priority = <<>> /\ "last_priority_recommendation" \in DOMAIN ss
                THEN ss["last_priority_recommendation"]
                ELSE parsed.priority),
            "last_priority_rationale", parsed.rationale),
        "last_selected_issue_key", key)

\* lines 153-156: the three session keys are written together
Store(ss, parsed, key) ==
    Put(Put(Put(ss, "last_priority_recommendation", parsed.priority),
            "last_priority_rationale", parsed.rationale),
        "last_selected_issue_key", key)

\* lines 141-156: parse the output and store the result for the selected issue
ParseAndStore(out) ==
    session_state' = Store(session_state, Parse(out), selected_issue)

\* ResolveName without the capitalize()
ResolveNameExact(label) ==
    IF label = High THEN High
    ELSE IF label = Medium THEN Medium
    ELSE IF label = Low THEN Low
    ELSE Medium

\* prio_map.get(label.capitalize(), "Medium")
ResolveName(label) ==
    LET c == Capitalize(label)
    IN  IF c = High THEN High
        ELSE IF c = Medium THEN Medium
        ELSE IF c = Low THEN Low
        ELSE Medium

None == 0

RECURSIVE PrioLoop(_, _, _, _)
\* for p in all_prios: if p.name.lower() == priority_name.lower(): prio_id = p.id
PrioLoop(cat, i, name, prio_id) ==
    IF i > Len(cat) THEN prio_id
    ELSE PrioLoop(cat, i + 1, name,
                  IF Lower(cat[i].name) = Lower(name) THEN cat[i].id ELSE prio_id)

\* PrioId falling back to the first entry when no name matches
PrioIdFallback(cat, name) ==
    IF PrioLoop(cat, 1, name, None) = None /\ cat # <<>>
    THEN cat[1].id
    ELSE PrioLoop(cat, 1, name, None)

PrioId(cat, name) == PrioLoop(cat, 1, name, None)

\* the f-string of the comment body
Comment(label, text) ==
    <<"AI Priority Recommendation: **">> \o label \o <<"**\n\nRationale:\n">> \o text

Init ==
    /\ session_state = <<>>
    /\ selected_issue = NoIssue
    /\ priority_output = <<>>
    /\ run = "start"
    /\ raised = "none"
    /\ uncaught = FALSE
    /\ st_messages = <<>>
    /\ jira_calls = <<>>
    /\ all_prios = <<>>
    /\ priority_name = <<>>
    /\ assessed_issue = NoIssue

\* the connection form is submitted with all fields filled in
Connect ==
    /\ ~Connected
    /\ run' = "connect"
    /\ \E ok \in BOOLEAN :
        /\ session_state' = Put(session_state, "connected", ok)
        /\ selected_issue' = IF ok THEN 1 ELSE NoIssue
        /\ raised' = IF ok THEN "none" ELSE "JIRA"
        /\ st_messages' = IF ok THEN <<"success: Connected">>
                          ELSE <<"error: Failed to connect to Jira">>
    /\ uncaught' = FALSE
    /\ jira_calls' = <<>>
    /\ priority_output' = <<>>
    /\ NoUpdateLocals
    /\ UNCHANGED assessed_issue

\* the Disconnect button
Disconnect ==
    /\ Connected
    /\ run' = "disconnect"
    /\ session_state' = Del(session_state, ClearedKeys)
    /\ selected_issue' = NoIssue
    /\ assessed_issue' = NoIssue
    /\ priority_output' = <<>>
    /\ Quiet
    /\ NoUpdateLocals

\* a script run in which the issue search raises or returns nothing
SearchFails ==
    /\ Connected
    /\ selected_issue # NoIssue
    /\ run' = "search"
    /\ selected_issue' = NoIssue
    /\ raised' \in {"none", "jira.search_issues"}
    /\ uncaught' = FALSE
    /\ st_messages' = IF raised' = "none" THEN <<"warning: No issues found">>
                      ELSE <<"error: Failed to load issues", "warning: No issues found">>
    /\ jira_calls' = <<>>
    /\ priority_output' = <<>>
    /\ NoUpdateLocals
    /\ UNCHANGED <<session_state, assessed_issue>>

\* a script run in which the issues are back: the selectbox shows its first option
SearchRecovers ==
    /\ Connected
    /\ selected_issue = NoIssue
    /\ run' = "search"
    /\ selected_issue' = 1
    /\ priority_output' = <<>>
    /\ Quiet
    /\ NoUpdateLocals
    /\ UNCHANGED <<session_state, assessed_issue>>

\* another issue is chosen in the selectbox
SelectIssue ==
    /\ Connected
    /\ selected_issue # NoIssue
    /\ run' = "select"
    /\ \E k \in Issues \ {selected_issue} : selected_issue' = k
    /\ priority_output' = <<>>
    /\ Quiet
    /\ NoUpdateLocals
    /\ UNCHANGED <<session_state, assessed_issue>>

\* the priority form is submitted
Assess ==
    /\ Connected
    /\ selected_issue # NoIssue
    /\ run' = "assess"
    /\ \/ /\ raised' = "get_llm"             \* lines 124-127 are outside the try
          /\ uncaught' = TRUE
          /\ priority_output' = <<>>
          /\ st_messages' = <<>>
          /\ UNCHANGED <<session_state, assessed_issue>>
       \/ /\ raised' = "chain.run"
          /\ uncaught' = FALSE
          /\ priority_output' = <<>>
          /\ st_messages' = <<"error: OpenAI Error">>
          /\ ParseAndStore(priority_output')
          /\ assessed_issue' = selected_issue
       \/ /\ raised' = "none"
          /\ uncaught' = FALSE
          /\ priority_output' \in ModelOutputs
          /\ st_messages' = <<>>
          /\ ParseAndStore(priority_output')
          /\ assessed_issue' = selected_issue
    /\ jira_calls' = <<>>
    /\ NoUpdateLocals
    /\ UNCHANGED selected_issue

\* the update_priority_btn button
UpdatePriority ==
    /\ ButtonsOffered
    /\ run' = "update_priority_btn"
    /\ priority_name' = ResolveName(session_state["last_priority_recommendation"])
    /\ \/ /\ raised' = "jira.priorities"
          /\ all_prios' = <<>>
          /\ jira_calls' = <<>>
          /\ st_messages' = <<"error: Failed to update Jira issue priority">>
       \/ /\ all_prios' \in Catalogs
          /\ LET prio_id == PrioId(all_prios', priority_name')
             IN  IF prio_id = None
                 THEN /\ raised' = "none"
                      /\ jira_calls' = <<>>
                      /\ st_messages' = <<"warning: Could not map recommended priority">>
                 ELSE /\ jira_calls' = <<[op |-> "update", key |-> selected_issue,
                                          prio_id |-> prio_id]>>
                      /\ raised' \in {"none", "issue.update"}
                      /\ st_messages' = IF raised' = "none"
                                        THEN <<"success: Issue updated to priority">>
                                        ELSE <<"error: Failed to update Jira issue priority">>
    /\ uncaught' = FALSE
    /\ priority_output' = <<>>
    /\ UNCHANGED <<session_state, selected_issue, assessed_issue>>

\* AddComment forgetting the recommendation when the call raises
AddCommentDropsOnFailure ==
    /\ ButtonsOffered
    /\ run' = "add_comment_btn"
    /\ jira_calls' = <<[op |-> "add_comment", key |-> selected_issue,
                        body |-> Comment(session_state["last_priority_recommendation"],
                                         session_state["last_priority_rationale"])]>>
    /\ raised' \in {"none", "jira.add_comment"}
    /\ st_messages' = IF raised' = "none" THEN <<"success: Comment added">>
                      ELSE <<"error: Failed to add comment">>
    /\ session_state' = IF raised' = "none" THEN session_state
                        ELSE Del(session_state, {"last_priority_recommendation"})
    /\ uncaught' = FALSE
    /\ priority_output' = <<>>
    /\ NoUpdateLocals
    /\ UNCHANGED <<selected_issue, assessed_issue>>

\* AddComment consuming the recommendation once the comment is added
AddCommentConsumes ==
    /\ ButtonsOffered
    /\ run' = "add_comment_btn"
    /\ jira_calls' = <<[op |-> "add_comment", key |-> selected_issue,
                        body |-> Comment(session_state["last_priority_recommendation"],
                                         session_state["last_priority_rationale"])]>>
    /\ raised' \in {"none", "jira.add_comment"}
    /\ st_messages' = IF raised' = "none" THEN <<"success: Comment added">>
                      ELSE <<"error: Failed to add comment">>
    /\ session_state' = IF raised' = "none"
                        THEN Del(session_state, {"last_priority_recommendation"})
                        ELSE session_state
    /\ uncaught' = FALSE
    /\ priority_output' = <<>>
    /\ NoUpdateLocals
    /\ UNCHANGED <<selected_issue, assessed_issue>>

\* the add_comment_btn button
AddComment ==
    /\ ButtonsOffered
    /\ run' = "add_comment_btn"
    /\ jira_calls' = <<[op |-> "add_comment", key |-> selected_issue,
                        body |-> Comment(session_state["last_priority_recommendation"],
                                         session_state["last_priority_rationale"])]>>
    /\ raised' \in {"none", "jira.add_comment"}
    /\ st_messages' = IF raised' = "none" THEN <<"success: Comment added">>
                      ELSE <<"error: Failed to add comment">>
    /\ uncaught' = FALSE
    /\ priority_output' = <<>>
    /\ NoUpdateLocals
    /\ UNCHANGED <<session_state, selected_issue, assessed_issue>>

Next ==
    \/ Connect
    \/ Disconnect
    \/ SearchFails
    \/ SearchRecovers
    \/ SelectIssue
    \/ Assess
    \/ UpdatePriority
    \/ AddComment

Spec == Init /\ [][Next]_vars

----------------------------------------------------------------------------
(* The parser on its own: the model call has returned priority_output, and *)
(* the rest of the submit handler (lines 141-156) runs on it.              *)

\* lines a reply may be made of
ParseLines ==
    { <<>>,
      Ok,
      PRIORITY_MARKER \o <<" ">> \o High,
      <<"-"," ">> \o PRIORITY_MARKER \o Low \o <<" ">>,
      RATIONALE_MARKER \o <<" "," ">>,
      PRIORITY_MARKER \o <<" ">> \o Medium \o <<" ">> \o RATIONALE_MARKER,
      SubSeq(PRIORITY_MARKER, 1, Len(PRIORITY_MARKER) - 2) \o <<" ">> \o High }

\* line separators a reply may use
ParseSeparators == { <<"\n">>, <<"\r","\n">> }

\* replies of at most MaxLines lines
ParseOutputs ==
    UNION { { Join(f, sep) : f \in [1..n -> ParseLines], sep \in ParseSeparators }
            : n \in 0..MaxLines }

ParseInit ==
    /\ session_state = [x \in {"connected"} |-> TRUE]
    /\ selected_issue = 1
    /\ priority_output \in ParseOutputs
    /\ run = "chain.run"
    /\ raised = "none"
    /\ uncaught = FALSE
    /\ st_messages = <<>>
    /\ jira_calls = <<>>
    /\ all_prios = <<>>
    /\ priority_name = <<>>
    /\ assessed_issue = NoIssue

\* lines 141-156 on the reply at hand
ParseReply ==
    /\ run' = "assess"
    /\ ParseAndStore(priority_output)
    /\ assessed_issue' = selected_issue
    /\ UNCHANGED <<selected_issue, priority_output, raised, uncaught,
                   st_messages, jira_calls, all_prios, priority_name>>

ParseNext == ParseReply

ParseSpec == ParseInit /\ [][ParseNext]_vars

----------------------------------------------------------------------------
(* Properties *)

RecKeys == {"last_priority_recommendation", "last_priority_rationale",
            "last_selected_issue_key"}

\* the stored recommendation: the part of the session the assessment writes
Rec == [k \in DOMAIN session_state \cap RecKeys |-> session_state[k]]

Shown(m) == \E i \in 1..Len(st_messages) : st_messages[i] = m

\* the submit handler ran to its end on priority_output
Parsed == run = "assess" /\ ~uncaught

\* the lines of the reply that contain marker m
LinesWith(m) ==
    {i \in 1..Len(Splitlines(priority_output)) : Contains(Splitlines(priority_output)[i], m)}

First(S) == CHOOSE i \in S : \A j \in S : i <= j

\* what the handler extracts from line i for the label, and after line i for the rationale
LabelOn(i) == Strip(SplitLast(Splitlines(priority_output)[i], PRIORITY_MARKER))
TextAfter(i) ==
    Strip(Join(SubSeq(Splitlines(priority_output), i + 1, Len(Splitlines(priority_output))),
               <<"\n">>))

\* C1: every update or comment call that reaches the tracker carries the key of
\* the issue that was selected when the stored recommendation was computed, and
\* the two actions are offered only while that issue is the selected one.
C1_CallsKeepTheirIssue ==
    /\ \A i \in 1..Len(jira_calls) :
          assessed_issue # NoIssue /\ jira_calls[i].key = assessed_issue
    /\ ButtonsOffered => selected_issue = assessed_issue

\* C1 witness: an update call for the second issue has reached the tracker.
C1_Witness ==
    /\ jira_calls # <<>>
    /\ jira_calls[1].op = "update"
    /\ jira_calls[1].key = 2
    /\ assessed_issue = 2

\* C2 (as claimed): a run in which another issue is chosen leaves no recommendation
\* on offer, so coming back to the assessed issue does not offer the two actions.
C2_SelectInvalidates == run = "select" => ~ButtonsOffered

\* C3 (as claimed): the stored label is the trimmed text after the marker on the
\* FIRST line of the reply that contains the priority marker.
C3_LabelFromFirstLine ==
    (Parsed /\ LinesWith(PRIORITY_MARKER) # {}) =>
        session_state["last_priority_recommendation"] = LabelOn(First(LinesWith(PRIORITY_MARKER)))

\* C4 (as claimed): the stored rationale is the trimmed newline-join of the lines
\* after the FIRST line of the reply that contains the rationale marker.
C4_RationaleAfterFirstLine ==
    (Parsed /\ LinesWith(RATIONALE_MARKER) # {}) =>
        session_state["last_priority_rationale"] = TextAfter(First(LinesWith(RATIONALE_MARKER)))

\* C5: parsing always yields both fields; a field whose marker is on no line is
\* empty whatever the other marker does, and a field whose marker is present is
\* extracted at a line that carries its marker.
C5_MissingMarkerEmptyField ==
    Parsed =>
        /\ Has("last_priority_recommendation") /\ Has("last_priority_rationale")
        /\ LinesWith(PRIORITY_MARKER) = {} =>
              session_state["last_priority_recommendation"] = <<>>
        /\ LinesWith(RATIONALE_MARKER) = {} =>
              session_state["last_priority_rationale"] = <<>>
        /\ LinesWith(PRIORITY_MARKER) # {} =>
              \E i \in LinesWith(PRIORITY_MARKER) :
                  session_state["last_priority_recommendation"] = LabelOn(i)
        /\ LinesWith(RATIONALE_MARKER) # {} =>
              \E i \in LinesWith(RATIONALE_MARKER) :
                  session_state["last_priority_rationale"] = TextAfter(i)

\* C5 witness: a reply with a rationale marker and no priority marker was parsed
\* to an empty label and a non-empty rationale.
C5_Witness ==
    /\ Parsed
    /\ LinesWith(PRIORITY_MARKER) = {}
    /\ LinesWith(RATIONALE_MARKER) # {}
    /\ session_state["last_priority_recommendation"] = <<>>
    /\ session_state["last_priority_rationale"] # <<>>

\* the names the update handler can resolve a label to
PrioNames == {High, Medium, Low}

SameIgnoringCase(a, b) == Lower(a) = Lower(b)

UpdateRan == run = "update_priority_btn"

\* C6: when the update handler runs, the resolved name is the one of High, Medium,
\* Low that the stored label equals ignoring letter case, and Medium for every
\* other label; it is never a name outside these three.
C6_ResolvedName ==
    UpdateRan =>
        LET label == session_state["last_priority_recommendation"]
        IN  /\ priority_name \in PrioNames
            /\ \A w \in PrioNames : SameIgnoringCase(label, w) => priority_name = w
            /\ (\A w \in PrioNames : ~SameIgnoringCase(label, w)) => priority_name = Medium

\* C6 witness: the update handler ran on a label that is "High" only up to letter
\* case and resolved it to High.
C6_Witness ==
    /\ UpdateRan
    /\ session_state["last_priority_recommendation"] # High
    /\ SameIgnoringCase(session_state["last_priority_recommendation"], High)
    /\ priority_name = High

\* the entries of the returned catalog whose name equals the resolved name ignoring case
Matches == {i \in 1..Len(all_prios) : SameIgnoringCase(all_prios[i].name, priority_name)}

\* C7: when the update handler runs on a catalog the tracker returned, an update
\* call is made exactly if some entry matches the resolved name ignoring case,
\* with the id of a matching entry and for the selected issue; with no matching
\* entry (an empty catalog included) no call is made, no success is shown and
\* the warning is shown.
C7_UpdateIffCatalogMatch ==
    (UpdateRan /\ raised # "jira.priorities") =>
        /\ (jira_calls # <<>>) <=> (Matches # {})
        /\ Matches # {} =>
              /\ Len(jira_calls) = 1
              /\ jira_calls[1].op = "update"
              /\ jira_calls[1].key = selected_issue
              /\ \E i \in Matches : jira_calls[1].prio_id = all_prios[i].id
        /\ Matches = {} =>
              /\ jira_calls = <<>>
              /\ ~Shown("success: Issue updated to priority")
              /\ Shown("warning: Could not map recommended priority")

\* C7 witness: the update handler ran on a non-empty catalog with no matching
\* entry and warned.
C7_Witness ==
    /\ UpdateRan
    /\ raised = "none"
    /\ all_prios # <<>>
    /\ Matches = {}
    /\ jira_calls = <<>>
    /\ Shown("warning: Could not map recommended priority")

\* C8: when the model call raises during an assessment, the handler still runs to
\* its end: the exception does not leave the script run, the error is shown, and
\* the label and the rationale it yields and stores are both empty.
C8_ModelFailureYieldsEmpty ==
    (run = "assess" /\ raised = "chain.run") =>
        /\ ~uncaught
        /\ Shown("error: OpenAI Error")
        /\ priority_output = <<>>
        /\ Has("last_priority_recommendation")
        /\ session_state["last_priority_recommendation"] = <<>>
        /\ Has("last_priority_rationale")
        /\ session_state["last_priority_rationale"] = <<>>
        /\ Has("last_selected_issue_key")
        /\ session_state["last_selected_issue_key"] = selected_issue

\* C8 witness: an assessment of the second issue in which the model call raised.
C8_Witness ==
    /\ run = "assess"
    /\ raised = "chain.run"
    /\ selected_issue = 2
    /\ Shown("error: OpenAI Error")

\* the latest run was an assessment whose model call raised
ModelFailure == run = "assess" /\ raised = "chain.run"

\* the latest run was an update or comment handler that failed or found no priority
TrackerFailure ==
    \/ UpdateRan /\ raised \in {"jira.priorities", "issue.update"}
    \/ UpdateRan /\ Shown("warning: Could not map recommended priority")
    \/ run = "add_comment_btn" /\ raised = "jira.add_comment"

\* C9 (as claimed): a failed model call, a priority that is not found, a failed
\* update and a failed comment each leave a stored recommendation as it was.
C9_EveryFailureKeepsRec ==
    [][(Has("last_priority_recommendation") /\ (ModelFailure' \/ TrackerFailure'))
          => Rec' = Rec]_vars

\* C9 (amended): a priority that is not found, a failed update and a failed comment
\* leave the stored recommendation as it was and still on offer; a failed model
\* call replaces it by an empty label and rationale for the selected issue.
C9_TrackerFailureKeepsRec ==
    [][/\ TrackerFailure' => (Rec' = Rec /\ ButtonsOffered')
       /\ ModelFailure' =>
             Rec' = [k \in RecKeys |->
                        IF k = "last_selected_issue_key" THEN selected_issue ELSE <<>>]]_vars

\* C9 witness: a tracker call raised and the recommendation is still on offer.
C9_Witness ==
    /\ raised \in {"jira.priorities", "issue.update", "jira.add_comment"}
    /\ ButtonsOffered

\* C10: the update and the comment handler, succeeding or failing, leave the
\* stored recommendation as it was and both actions on offer.
C10_ActionsKeepRec ==
    [][(run' \in {"update_priority_btn", "add_comment_btn"})
          => (Rec' = Rec /\ ButtonsOffered')]_vars

\* C10 witness: a comment was added and both actions are still on offer.
C10_Witness ==
    /\ run = "add_comment_btn"
    /\ raised = "none"
    /\ Shown("success: Comment added")
    /\ ButtonsOffered

\* the record an assessment of the selected issue stores for the reply out
RecOf(out, key) ==
    [k \in RecKeys |->
        IF k = "last_priority_recommendation" THEN Parse(out).priority
        ELSE IF k = "last_priority_rationale" THEN Parse(out).rationale
        ELSE key]

\* C11: a submit handler that ran to its end, the model call having succeeded or
\* raised, leaves exactly the label and the rationale parsed from this call's
\* output and the key of the selected issue; no other run changes the stored
\* record except by deleting all of it, so its three fields always come from
\* one assessment.
C11_OverwrittenAsAWhole ==
    [][/\ (run' = "assess" /\ ~uncaught') => Rec' = RecOf(priority_output', selected_issue)
       /\ ~(run' = "assess" /\ ~uncaught') => (Rec' = Rec \/ DOMAIN Rec' = {})
       /\ DOMAIN Rec' \in {{}, RecKeys}]_vars

\* C11 witness: an assessment of the second issue stored a label with an empty
\* rationale, both parsed from its reply.
C11_Witness ==
    /\ Parsed
    /\ raised = "none"
    /\ selected_issue = 2
    /\ Rec = RecOf(priority_output, 2)
    /\ session_state["last_priority_recommendation"] = High
    /\ session_state["last_priority_rationale"] = <<>>

\* a non-empty label is stored for the selected issue
LabelForSelected ==
    /\ Has("last_priority_recommendation")
    /\ session_state["last_priority_recommendation"] # <<>>
    /\ Has("last_selected_issue_key")
    /\ session_state["last_selected_issue_key"] = selected_issue

\* C12: the update and the comment handler can run only while a non-empty label
\* is stored for the selected issue, and a call reaches the tracker only then;
\* so after an assessment that stored an empty label (no priority marker in the
\* reply, or the model call raised) neither can run, whatever the rationale.
C12_NoLabelNoMutation ==
    /\ (ENABLED UpdatePriority \/ ENABLED AddComment) => LabelForSelected
    /\ jira_calls # <<>> => LabelForSelected
    /\ (Parsed /\ session_state["last_priority_recommendation"] = <<>>) =>
          (~ENABLED UpdatePriority /\ ~ENABLED AddComment /\ jira_calls = <<>>)

\* C12 witness: an assessment whose reply had a rationale and no priority marker
\* left the rationale stored, the label empty and both handlers disabled.
C12_Witness ==
    /\ Parsed
    /\ raised = "none"
    /\ LinesWith(PRIORITY_MARKER) = {}
    /\ session_state["last_priority_recommendation"] = <<>>
    /\ session_state["last_priority_rationale"] # <<>>
    /\ session_state["last_selected_issue_key"] = selected_issue
    /\ ~ENABLED UpdatePriority
    /\ ~ENABLED AddComment

====
